---- MODULE Spec2Model ----
(***************************************************************************)
(* Model of the demetsiiify import front end (static/js/import.js and its  *)
(* later revision): the app's job store (jobIds, jobs, streams), the       *)
(* EventSource listeners, the JobDisplay components and the MetsForm.      *)
(***************************************************************************)
EXTENDS Integers, Sequences, FiniteSets, TLC

(* ---------------------------- bounds ---------------------------------- *)
MaxCreated == 2
MaxPos == 2
MaxImages == 1
MaxInFlight == 2
MaxNotifyInFlight == 1
MaxIdLen == 4
MaxPage == 4
MaxItems == 7
MaxWords == 3

(* ---------------------------- values ---------------------------------- *)
\* Job ids are opaque strings the server assigns.
Ids == {"abc", "def"}

undefined == "undefined"
null == "null"

Terminal == {"finished", "failed"}

\* A status snapshot is a JS object; only the fields of its status are present.
QueuedJobs == {[id |-> i, status |-> "queued", position |-> p] : i \in Ids, p \in 0..MaxPos}

StartedJobs == {[id |-> i, status |-> "started", current_image |-> c, total_images |-> t] :
                  i \in Ids, c \in 0..MaxImages, t \in 0..MaxImages}

FinishedJobs == {[id |-> i, status |-> "finished", result |-> "iiif/xyz/manifest"] : i \in Ids}

FailedJobs == {[id |-> i, status |-> "failed", traceback |-> "tb"] : i \in Ids}

Snapshots == QueuedJobs \cup {s \in StartedJobs : s.current_image <= s.total_images}
               \cup FinishedJobs \cup FailedJobs

(* ---------------------------- JSON ------------------------------------ *)
Keys == <<"id", "status", "position", "current_image", "total_images", "result", "traceback",
          "message">>

\* The text the server sends: the members of the object, in order.  A JS
\* string is tagged with the field str, which no object carries.
stringify(o) ==
  [str |-> SelectSeq([i \in 1..Len(Keys) |->
                        <<Keys[i], IF Keys[i] \in DOMAIN o THEN o[Keys[i]] ELSE undefined>>],
                     LAMBDA m : m[1] \in DOMAIN o)]

\* JSON.parse: one property per member name, the last member of a name wins.
JSONparse(text) ==
  LET ms == text.str
      names == {ms[i][1] : i \in DOMAIN ms}
      lastOf(n) == CHOOSE i \in DOMAIN ms :
                     ms[i][1] = n /\ \A j \in DOMAIN ms : ms[j][1] = n => j <= i
  IN [n \in names |-> ms[lastOf(n)][2]]

\* Property read v.name: a string has no such property, an object may lack it.
Prop(v, name) ==
  IF "str" \in DOMAIN v THEN undefined
  ELSE IF name \in DOMAIN v THEN v[name] ELSE undefined

Messages == {stringify(s) : s \in Snapshots}

(* ---------------------------- state ----------------------------------- *)
\* app: jobIds, jobs, streams; the EventSource objects (sources, by handle);
\* the JobDisplay instances (displays, by position in the rendered list).
\* MetsForm: metsUrl, errorMessage, traceback, invalid, isLoading, and the
\* creation requests that have no response yet (requests).
\* last records the handler that ran last and its argument; first records,
\* per job id, the position of the job's first snapshot.
\* ErrorDisplay.showTraceback: of the panel of the i-th JobDisplay (panels)
\* and of the panel of the MetsForm (formPanel); FALSE where no panel exists.
\* NotificationForm: its data while it is rendered (nform) and its requests
\* without a response yet (notifyRequests); MetsForm.showNotificationForm,
\* subscribedToNotifications and subscriptionAddress; posted holds the
\* notification requests the handler that ran last has issued.
\* view: an identifier and the view URL a component has derived from it.
\* card: a manifest label and the text a ManifestView shows for it.
\* The recent-manifests page (static/js/recent.js): nextPage, items, its
\* isLoading (recentIsLoading) and the page requests without a response (gets).
VARIABLES jobIds, jobs, streams, sources, displays,
          metsUrl, errorMessage, traceback, invalid, isLoading, requests,
          last, first, panels, formPanel,
          nform, notifyRequests, showNotificationForm, subscribedToNotifications,
          subscriptionAddress, posted,
          view, nextPage, items, recentIsLoading, gets, card

appVars == <<jobIds, jobs, streams, sources, displays>>

formVars == <<metsUrl, errorMessage, traceback, invalid, isLoading, requests>>

vars == <<jobIds, jobs, streams, sources, displays,
          metsUrl, errorMessage, traceback, invalid, isLoading, requests, last, first,
          panels, formPanel, nform, notifyRequests, showNotificationForm,
          subscribedToNotifications, subscriptionAddress, posted,
          view, nextPage, items, recentIsLoading, gets, card>>

importVars == <<jobIds, jobs, streams, sources, displays,
                metsUrl, errorMessage, traceback, invalid, isLoading, requests, last, first,
                panels, formPanel, nform, notifyRequests, showNotificationForm,
                subscribedToNotifications, subscriptionAddress, posted>>

recentVars == <<nextPage, items, recentIsLoading, gets>>

pageVars == <<view, nextPage, items, recentIsLoading, gets, card>>

subscriptionVars == <<showNotificationForm, subscribedToNotifications, subscriptionAddress>>

NoText == [str |-> <<>>]

InStore(id) == \E i \in DOMAIN jobIds : jobIds[i] = id

Op(type, id, h, data) ==
  [type |-> type, id |-> id, h |-> h, data |-> data, inStore |-> InStore(id)]

\* first after the first snapshot of job has been seen
Seen(job) ==
  IF job.id \in DOMAIN first THEN first
  ELSE [k \in DOMAIN first \cup {job.id} |-> IF k = job.id THEN job.position ELSE first[k]]

(* ---------------------------- Vue helpers ----------------------------- *)
\* Vue.set(obj, key, val): the property is replaced by val.
VueSet(obj, key, val) == [k \in DOMAIN obj \cup {key} |-> IF k = key THEN val ELSE obj[k]]

\* Vue.delete(obj, key)
VueDelete(obj, key) == [k \in DOMAIN obj \ {key} |-> obj[k]]

\* Array.prototype.indexOf: 0-based index of the first occurrence, or -1.
indexOf(arr, x) ==
  IF \E i \in DOMAIN arr : arr[i] = x
  THEN (CHOOSE i \in DOMAIN arr : arr[i] = x /\ \A j \in DOMAIN arr : arr[j] = x => i <= j) - 1
  ELSE -1

\* arr.splice(start, 1): a negative start counts from the end of the array.
splice1(arr, start) ==
  LET n == Len(arr)
      s == IF start < 0 THEN (IF n + start < 0 THEN 0 ELSE n + start)
           ELSE (IF start > n THEN n ELSE start)
  IN [i \in 1..(IF s < n THEN n - 1 ELSE n) |-> IF i <= s THEN arr[i] ELSE arr[i + 1]]

(* ---------------------------- app ------------------------------------- *)
\* JobDisplay.data(): evaluated once, when the component instance is created.
JobDisplayData(job) == [queueLength |-> job.position + 1]

\* app.onJobCreated(job)
onJobCreated(job) ==
  /\ jobIds' = Append(jobIds, job.id)
  /\ jobs' = VueSet(jobs, job.id, job)
  /\ sources' = Append(sources, [id |-> job.id, readyState |-> "open"])
  /\ streams' = VueSet(streams, job.id, Len(sources) + 1)
  /\ displays' = Append(displays, JobDisplayData(job))

\* onMessage that stores the snapshot under the id its payload carries
onMessage_byPayload(h, event) ==
  /\ jobs' = VueSet(jobs, JSONparse(event.data).id, JSONparse(event.data))
  /\ sources' = sources
  /\ UNCHANGED <<jobIds, streams, displays>>

\* onMessage that also moves the job to the front of the list
onMessage_front(h, event) ==
  LET id == sources[h].id
      rest == SelectSeq(jobIds, LAMBDA x : x # id)
  IN /\ jobs' = VueSet(jobs, id, JSONparse(event.data))
     /\ jobIds' = IF InStore(id) THEN <<id>> \o rest ELSE jobIds
     /\ sources' = sources
     /\ UNCHANGED <<streams, displays>>

\* onMessage with the snapshot merged into the stored job instead of replacing it
onMessage_merge(h, event) ==
  LET id == sources[h].id
      new == JSONparse(event.data)
      old == IF id \in DOMAIN jobs THEN jobs[id] ELSE new
      merged == [f \in DOMAIN old \cup DOMAIN new |-> IF f \in DOMAIN new THEN new[f] ELSE old[f]]
  IN /\ jobs' = VueSet(jobs, id, merged)
     /\ UNCHANGED <<jobIds, streams, sources, displays>>

\* The 'message' listener that onJobCreated attaches to event stream h.
onMessage(h, event) ==
  /\ jobs' = VueSet(jobs, sources[h].id, JSONparse(event.data))
  /\ sources' = IF Prop(event.data, "status") \in Terminal
                THEN [sources EXCEPT ![h].readyState = "closed"]
                ELSE sources
  /\ UNCHANGED <<jobIds, streams, displays>>

\* onJobDismissed with the last id removed, whatever jobId is
onJobDismissed_pop(jobId) ==
  /\ jobIds' = splice1(jobIds, -1)
  /\ jobs' = VueDelete(jobs, jobId)
  /\ displays' = SubSeq(displays, 1, Len(jobIds'))
  /\ UNCHANGED <<streams, sources>>

\* app.onJobDismissed(jobId); the v-for over jobIds has no key, so the
\* rendered list is patched in place and its last component is destroyed.
onJobDismissed(jobId) ==
  /\ jobIds' = splice1(jobIds, indexOf(jobIds, jobId))
  /\ jobs' = VueDelete(jobs, jobId)
  /\ displays' = SubSeq(displays, 1, Len(jobIds'))
  /\ UNCHANGED <<streams, sources>>

\* A JS number n / d, kept as the fraction: d = 0 is NaN (0/0) or an infinity.
Div(n, d) == [kind |-> "number", num |-> n, den |-> d]

Null == [kind |-> "null"]

\* A JS number that is an integer.
Num(n) == [kind |-> "number", n |-> n]

\* Truthiness of a number or null: null and 0 are falsy.
TruthyNumber(v) == v.kind = "number" /\ v.n # 0

\* JobDisplay.completionRatio
completionRatio(job, queueLength) ==
  IF job.status = "queued"
  THEN Div((queueLength + 1) - (job.position + 1), queueLength + 1)
  ELSE IF job.status = "started"
  THEN Div(job.current_image, job.total_images)
  ELSE Null

\* JobDisplay.completionRatio as static/js/import.js has it
completionRatioImportJs(job, queueLength) ==
  IF job.status = "queued"
  THEN Div(queueLength - job.position + 1, queueLength)
  ELSE IF job.status = "started"
  THEN Div(job.current_image, job.total_images)
  ELSE Null

\* The JobDisplay instances that have a job to render, by list position.
Rendered == {i \in DOMAIN displays : i \in DOMAIN jobIds /\ jobIds[i] \in DOMAIN jobs}

\* The value bound to the progress element of the i-th JobDisplay.
ratioAt(i) == completionRatio(jobs[jobIds[i]], displays[i].queueLength)

(* ---------------------------- MetsForm -------------------------------- *)
Urls == {"", "not a url", "http://example.org/mets.xml"}

\* Constraint validation of <input type="url">, which is not required.
validUrl(u) == u \in {"", "http://example.org/mets.xml"}

\* The bodies of a failed creation response; NoResponse is a transport failure.
ErrorBodies == {[message |-> "Not a valid METS document"], [traceback |-> "tb"],
                [message |-> "Not a valid METS document", traceback |-> "tb"],
                [status |-> "error"]}

NoResponse == [request |-> "sent"]

Errors == {[response |-> [data |-> d]] : d \in ErrorBodies} \cup {NoResponse}

Truthy(v) == v \notin {undefined, null, ""}

\* The body of a failed response as text; no text when there is no response.
bodyText(err) == IF "response" \in DOMAIN err THEN stringify(err.response.data) ELSE NoText

\* MetsForm.isDisabled
isDisabled == invalid \/ errorMessage # null

\* MetsForm template: <span v-if="errorMessage"> shows the inline message.
inlineShown == Truthy(errorMessage)

\* MetsForm template: <ErrorDisplay v-if="!errorMessage && traceback">
errorDisplayShown == ~Truthy(errorMessage) /\ Truthy(traceback)

\* requests without its k-th element
Without(seq, k) == [i \in 1..(Len(seq) - 1) |-> IF i < k THEN seq[i] ELSE seq[i + 1]]

\* MetsForm.removeError
removeError ==
  /\ invalid' = FALSE
  /\ errorMessage' = null
  /\ UNCHANGED <<metsUrl, traceback, isLoading, requests>>

\* MetsForm.onDismissError
onDismissError ==
  /\ invalid' = FALSE
  /\ errorMessage' = null
  /\ traceback' = null
  /\ UNCHANGED <<metsUrl, isLoading, requests>>

\* MetsForm.submitUrl up to the post; a click on the submit button then
\* validates the form, and an invalid input fires invalidate.
submitUrl ==
  /\ isLoading' = TRUE
  /\ requests' = Append(requests, [url |-> metsUrl])
  /\ invalid' = IF validUrl(metsUrl) THEN invalid ELSE TRUE
  /\ UNCHANGED <<metsUrl, errorMessage, traceback>>

\* A notification request: its URL, and the recipient and the job ids of its
\* body, the ids under the member name key.
Post(url, recipient, key, ids) == [url |-> url, recipient |-> recipient, key |-> key, ids |-> ids]

\* submitUrlThen that leaves the URL in the input
submitUrlThen_keepUrl(k, resp) ==
  /\ errorMessage' = null
  /\ metsUrl' = metsUrl
  /\ onJobCreated(resp.data)
  /\ posted' = IF subscribedToNotifications
               THEN <<Post("/api/notify", subscriptionAddress, "job_ids", <<resp.data.id>>)>>
               ELSE <<>>
  /\ isLoading' = FALSE
  /\ requests' = Without(requests, k)
  /\ UNCHANGED <<traceback, invalid>>

\* submitUrlThen that never notifies about the new job
submitUrlThen_silent(k, resp) ==
  /\ errorMessage' = null
  /\ metsUrl' = ""
  /\ onJobCreated(resp.data)
  /\ posted' = <<>>
  /\ isLoading' = FALSE
  /\ requests' = Without(requests, k)
  /\ UNCHANGED <<traceback, invalid>>

\* MetsForm.submitUrl, the then-callback of request k
submitUrlThen(k, resp) ==
  /\ errorMessage' = null
  /\ metsUrl' = ""
  /\ onJobCreated(resp.data)
  /\ posted' = IF subscribedToNotifications
               THEN <<Post("/api/notify", subscriptionAddress, "job_ids", <<resp.data.id>>)>>
               ELSE <<>>
  /\ isLoading' = FALSE
  /\ requests' = Without(requests, k)
  /\ UNCHANGED <<traceback, invalid>>

\* submitUrlCatch that posts the request again when there was no response
submitUrlCatch_retry(k, err) ==
  LET hasResponse == "response" \in DOMAIN err
      message == IF hasResponse THEN Prop(err.response.data, "message") ELSE undefined
      tb == IF hasResponse THEN Prop(err.response.data, "traceback") ELSE undefined
  IN /\ errorMessage' = IF Truthy(message) THEN message ELSE errorMessage
     /\ traceback' = IF ~Truthy(message) /\ Truthy(tb) THEN tb ELSE traceback
     /\ isLoading' = hasResponse
     /\ requests' = IF hasResponse THEN Without(requests, k)
                     ELSE Append(Without(requests, k), requests[k])
     /\ UNCHANGED <<metsUrl, invalid>>

\* submitUrlCatch with two independent tests instead of if / else if
submitUrlCatch_both(k, err) ==
  LET hasResponse == "response" \in DOMAIN err
      message == IF hasResponse THEN Prop(err.response.data, "message") ELSE undefined
      tb == IF hasResponse THEN Prop(err.response.data, "traceback") ELSE undefined
  IN /\ errorMessage' = IF Truthy(message) THEN message ELSE errorMessage
     /\ traceback' = IF Truthy(tb) THEN tb ELSE traceback
     /\ isLoading' = FALSE
     /\ requests' = Without(requests, k)
     /\ UNCHANGED <<metsUrl, invalid>>

\* submitUrlCatch that also empties the input, as the then-callback does
submitUrlCatch_clear(k, err) ==
  LET hasResponse == "response" \in DOMAIN err
      message == IF hasResponse THEN Prop(err.response.data, "message") ELSE undefined
      tb == IF hasResponse THEN Prop(err.response.data, "traceback") ELSE undefined
  IN /\ errorMessage' = IF Truthy(message) THEN message ELSE errorMessage
     /\ traceback' = IF ~Truthy(message) /\ Truthy(tb) THEN tb ELSE traceback
     /\ isLoading' = FALSE
     /\ requests' = Without(requests, k)
     /\ metsUrl' = ""
     /\ UNCHANGED invalid

\* MetsForm.submitUrl, the catch-callback of request k
submitUrlCatch(k, err) ==
  LET hasResponse == "response" \in DOMAIN err
      message == IF hasResponse THEN Prop(err.response.data, "message") ELSE undefined
      tb == IF hasResponse THEN Prop(err.response.data, "traceback") ELSE undefined
  IN /\ errorMessage' = IF Truthy(message) THEN message ELSE errorMessage
     /\ traceback' = IF ~Truthy(message) /\ Truthy(tb) THEN tb ELSE traceback
     /\ isLoading' = FALSE
     /\ requests' = Without(requests, k)
     /\ UNCHANGED <<metsUrl, invalid>>

(* ---------------------------- ErrorDisplay ---------------------------- *)
\* A panel that would be created with its traceback shown.
ErrorDisplayData_shown == [showTraceback |-> TRUE]

\* ErrorDisplay.data(): evaluated when the panel is created.
ErrorDisplayData == [showTraceback |-> FALSE]

\* JobDisplay template: the i-th JobDisplay shows <ErrorDisplay v-if="job.status === 'failed'">
failedAt(i) ==
  i \in DOMAIN jobIds /\ jobIds[i] \in DOMAIN jobs /\ jobs[jobIds[i]].status = "failed"

\* ErrorDisplay.toggleTraceback
toggleTraceback(showTraceback) == ~showTraceback

\* Re-render of the job list: a panel that stays rendered at its place keeps
\* its data, a panel that appears is created, one that disappears is destroyed.
PatchPanels ==
  panels' = [i \in DOMAIN jobIds' |->
               IF failedAt(i) /\ failedAt(i)' THEN panels[i]
               ELSE ErrorDisplayData.showTraceback]

\* Re-render of the MetsForm: the same for its ErrorDisplay.
PatchFormPanel ==
  formPanel' = IF errorDisplayShown /\ errorDisplayShown' THEN formPanel
               ELSE ErrorDisplayData.showTraceback

(* ---------------------------- NotificationForm ------------------------ *)
Recipients == {"", "nobody", "me@example.org"}

\* Constraint validation of <input type="email">, which is not required.
validEmail(r) == r \in {"", "me@example.org"}

\* NotificationForm.data(): evaluated when the form is created.
NotificationFormData ==
  [rendered |-> TRUE, viewForm |-> FALSE, recipient |-> "", wasSubmitted |-> FALSE,
   errorMessage |-> null, invalid |-> FALSE, isLoading |-> FALSE]

\* No NotificationForm is rendered.
NoForm == [NotificationFormData EXCEPT !.rendered = FALSE]

\* MetsForm.hasJobs
hasJobs(ids) == Len(ids) > 0

\* MetsForm.onDismissNotification
onDismissNotification == showNotificationForm' = FALSE

\* MetsForm.onSubscribeToNotifications
onSubscribeToNotifications(recipient) ==
  /\ subscribedToNotifications' = TRUE
  /\ subscriptionAddress' = recipient

\* MetsForm template: <NotificationForm v-if="showNotificationForm && hasJobs">.
\* The form nf the handler leaves is kept while the condition holds, created
\* when it starts to hold and destroyed when it ceases to; the requests of
\* a destroyed form stay in flight, their callbacks act on the destroyed form.
PatchNotificationForm(nf, reqs) ==
  /\ nform' = IF showNotificationForm' /\ hasJobs(jobIds')
              THEN (IF nf.rendered THEN nf ELSE NotificationFormData)
              ELSE NoForm
  /\ notifyRequests' = IF nform'.rendered THEN reqs
                       ELSE [k \in DOMAIN reqs |-> [reqs[k] EXCEPT !.alive = FALSE]]

\* NotificationForm.isDisabled
NotificationForm_isDisabled(nf) == nf.invalid \/ nf.errorMessage # null

\* NotificationForm.removeError
NotificationForm_removeError(nf) == [nf EXCEPT !.errorMessage = null, !.invalid = FALSE]

\* NotificationForm template: the email input and the Submit button are shown.
inputShown(nf) == nf.rendered /\ nf.viewForm /\ ~nf.wasSubmitted

\* NotificationForm template: the "You will be notified" box is shown.
subscribedShown(nf) == nf.rendered /\ nf.viewForm /\ nf.wasSubmitted

\* NotificationForm.registerForNotifications up to the post; the form has the
\* store's jobIds as its prop.
registerForNotifications(ids) ==
  /\ UNCHANGED appVars
  /\ posted' = <<Post("/api/tasks/notify", nform.recipient, "jobs", ids)>>
  /\ PatchNotificationForm([nform EXCEPT !.isLoading = TRUE],
                           Append(notifyRequests,
                                  [recipient |-> nform.recipient, jobs |-> ids,
                                   alive |-> TRUE]))

\* registerThen that empties the job list once the subscription is made
registerThen_reset(k) ==
  /\ jobIds' = <<>>
  /\ jobs' = <<>>
  /\ displays' = <<>>
  /\ UNCHANGED <<streams, sources>>
  /\ onSubscribeToNotifications(nform.recipient)
  /\ UNCHANGED showNotificationForm
  /\ PatchNotificationForm([nform EXCEPT !.wasSubmitted = TRUE, !.isLoading = FALSE],
                           Without(notifyRequests, k))

\* NotificationForm.registerForNotifications, the then-callback of request k.
\* A destroyed form has no listeners left and is not rendered.
registerThen(k) ==
  /\ UNCHANGED appVars
  /\ IF notifyRequests[k].alive
     THEN /\ onSubscribeToNotifications(nform.recipient)
          /\ UNCHANGED showNotificationForm
          /\ PatchNotificationForm([nform EXCEPT !.wasSubmitted = TRUE, !.isLoading = FALSE],
                                   Without(notifyRequests, k))
     ELSE /\ UNCHANGED subscriptionVars
          /\ PatchNotificationForm(nform, Without(notifyRequests, k))

\* NotificationForm.registerForNotifications, the catch-callback of request k
registerCatch(k, err) ==
  /\ UNCHANGED appVars
  /\ UNCHANGED subscriptionVars
  /\ IF notifyRequests[k].alive
     THEN PatchNotificationForm(
            [nform EXCEPT !.errorMessage = IF "response" \in DOMAIN err
                                           THEN Prop(err.response.data, "message")
                                           ELSE @,
                          !.isLoading = FALSE],
            Without(notifyRequests, k))
     ELSE PatchNotificationForm(nform, Without(notifyRequests, k))

(* ---------------------------- view URLs ------------------------------- *)
\* A JS string is the sequence of its characters.
Alphabet == {"a", "b", "/"}

RECURSIVE StringsOfLen(_)
StringsOfLen(n) ==
  IF n = 0 THEN {<<>>}
  ELSE {Append(t, c) : t \in StringsOfLen(n - 1), c \in Alphabet}

\* The identifiers: job.result, manifest['@id']
Identifiers == UNION {StringsOfLen(n) : n \in 0..MaxIdLen}

\* String.prototype.split(sep): the pieces between the separators.
RECURSIVE split(_, _)
split(str, sep) ==
  IF \A i \in DOMAIN str : str[i] # sep THEN <<str>>
  ELSE LET i == CHOOSE k \in DOMAIN str : str[k] = sep /\ \A j \in 1..(k - 1) : str[j] # sep
       IN <<SubSeq(str, 1, i - 1)>> \o split(SubSeq(str, i + 1, Len(str)), sep)

\* Array.prototype.slice(start, end) with 0-based, possibly negative indexes.
slice(arr, start, end) ==
  LET n == Len(arr)
      from == IF start < 0 THEN (IF n + start < 0 THEN 0 ELSE n + start)
              ELSE (IF start > n THEN n ELSE start)
      to == IF end < 0 THEN (IF n + end < 0 THEN 0 ELSE n + end)
            ELSE (IF end > n THEN n ELSE end)
  IN SubSeq(arr, from + 1, to)

\* arr.splice(start) returns the elements it removes: those from start on.
spliced(arr, start) == slice(arr, start, Len(arr))

undefinedText == <<"u", "n", "d", "e", "f", "i", "n", "e", "d">>

\* arr[0] put into a string: the element, or "undefined" if there is none.
elem0Text(arr) == IF arr = <<>> THEN undefinedText ELSE arr[1]

\* Array.prototype.join(",") of an array of strings, which is what putting
\* an array into a string gives.
RECURSIVE joinComma(_)
joinComma(arr) ==
  IF arr = <<>> THEN <<>>
  ELSE IF Len(arr) = 1 THEN arr[1]
  ELSE arr[1] \o <<",">> \o joinComma(Tail(arr))

viewPrefix == <<"/", "v", "i", "e", "w", "/">>

NoUrl == <<"no url">>

\* JobDisplay.viewerUrl (part_001): nothing for an empty result
JobDisplay_viewerUrl(result) ==
  IF result = <<>> THEN NoUrl
  ELSE viewPrefix \o elem0Text(spliced(split(result, "/"), -2))

\* ManifestView.viewerUrl (static/js/common.js)
ManifestView_viewerUrl(id) == viewPrefix \o elem0Text(slice(split(id, "/"), -2, Len(split(id, "/"))))

\* ManifestView.viewerUrl (part_000)
ManifestView_viewerUrl_slice(id) == viewPrefix \o joinComma(slice(split(id, "/"), -2, 2))

NoView == [id |-> <<>>, by |-> "none", url |-> NoUrl]

(* ---------------------------- labels ---------------------------------- *)
\* The length from which on a label is truncated.
Limit == 100

\* The lengths of the words of a label; a word of length 0 stands between
\* two adjacent spaces or before a leading space.
WordLens == {0, 1, 49, 50, 99, 100, 101}

\* A word of n characters.
Word(n) == [i \in 1..n |-> "a"]

RECURSIVE Labels(_)
\* The labels of n words, the words separated by one space each.
Labels(n) ==
  IF n = 1 THEN {Word(w) : w \in WordLens}
  ELSE {l \o <<" ">> \o Word(w) : l \in Labels(n - 1), w \in WordLens}

ManifestLabels == UNION {Labels(n) : n \in 1..MaxWords}

\* The character U+2026 of static/js/common.js.
ellipsis == <<"U+2026">>

\* The three characters U+00E2 U+20AC U+00A6 that recent.js and part_000
\* have in its place.
ellipsisMisencoded == <<"U+00E2", "U+20AC", "U+00A6">>

\* A text, or the TypeError of reading .length of undefined.
Text(t) == [kind |-> "string", text |-> t]

TypeError == [kind |-> "TypeError", text |-> <<>>]

RECURSIVE truncateLoop(_, _, _)
\* The while loop of truncatedLabel: parts.shift() takes the first part and
\* gives undefined for an empty array.
truncateLoop(parts, label, dots) ==
  IF Len(label) < Limit
  THEN IF parts = <<>> THEN TypeError
       ELSE LET part == Head(parts)
            IN IF Len(label) + Len(part) > Limit
               THEN Text(label \o dots)
               ELSE truncateLoop(Tail(parts), label \o <<" ">> \o part, dots)
  ELSE Text(label)

\* ManifestView.truncatedLabel, with the text dots it appends
truncatedLabelWith(label, dots) ==
  IF Len(label) < Limit THEN Text(label)
  ELSE truncateLoop(split(label, " "), <<>>, dots)

\* ManifestView.truncatedLabel (static/js/common.js)
truncatedLabel(label) == truncatedLabelWith(label, ellipsis)

\* ManifestView.truncatedLabel (static/js/recent.js)
truncatedLabel_recent(label) == truncatedLabelWith(label, ellipsisMisencoded)

\* ManifestView.truncatedLabel (part_000)
truncatedLabel_part000(label) == truncatedLabelWith(label, ellipsisMisencoded)

NoCard == [label |-> <<>>, by |-> "none", shown |-> Text(<<>>)]

(* ---------------------------- actions --------------------------------- *)
InitImport ==
  /\ jobIds = <<>>
  /\ jobs = <<>>
  /\ streams = <<>>
  /\ sources = <<>>
  /\ displays = <<>>
  /\ metsUrl = ""
  /\ errorMessage = null
  /\ traceback = null
  /\ invalid = FALSE
  /\ isLoading = FALSE
  /\ requests = <<>>
  /\ last = Op("init", "", 0, NoText)
  /\ first = <<>>
  /\ panels = <<>>
  /\ formPanel = FALSE
  /\ nform = NoForm
  /\ notifyRequests = <<>>
  /\ showNotificationForm = TRUE
  /\ subscribedToNotifications = FALSE
  /\ subscriptionAddress = undefined
  /\ posted = <<>>

\* The recent-manifests page after it is mounted: mounted() has called loadNext.
InitRecent ==
  /\ nextPage = Num(1)
  /\ items = <<>>
  /\ recentIsLoading = TRUE
  /\ gets = <<[page |-> Num(1)]>>

Init ==
  /\ InitImport
  /\ InitRecent
  /\ view = NoView
  /\ card = NoCard

\* The ids the server has handed out so far.
UsedIds == {sources[h].id : h \in DOMAIN sources}

\* MetsForm emits new-job with the body of a successful creation response;
\* the server gives every job an id of its own.
NewJob ==
  \E job \in QueuedJobs :
    /\ Len(sources) < MaxCreated
    /\ job.id \notin UsedIds
    /\ onJobCreated(job)
    /\ last' = Op("created", job.id, Len(sources) + 1, stringify(job))
    /\ UNCHANGED pageVars
    /\ first' = Seen(job)
    /\ UNCHANGED formVars
    /\ PatchPanels
    /\ PatchFormPanel
    /\ UNCHANGED subscriptionVars
    /\ PatchNotificationForm(nform, notifyRequests)
    /\ posted' = <<>>

\* A creation response that carries the id of an earlier job.
NewJobSameId ==
  \E job \in QueuedJobs :
    /\ Len(sources) < MaxCreated
    /\ job.id \in UsedIds
    /\ onJobCreated(job)
    /\ last' = Op("created", job.id, Len(sources) + 1, stringify(job))
    /\ UNCHANGED pageVars
    /\ first' = Seen(job)
    /\ UNCHANGED formVars
    /\ PatchPanels
    /\ PatchFormPanel
    /\ UNCHANGED subscriptionVars
    /\ PatchNotificationForm(nform, notifyRequests)
    /\ posted' = <<>>

\* The server pushes one of the snapshots ms of the job on the job's open
\* event stream.
MessageOf(ms) ==
  \E h \in DOMAIN sources, data \in ms :
    /\ sources[h].readyState = "open"
    /\ JSONparse(data).id = sources[h].id
    /\ onMessage(h, [data |-> data])
    /\ last' = Op("message", sources[h].id, h, data)
    /\ UNCHANGED pageVars
    /\ UNCHANGED <<formVars, first>>
    /\ PatchPanels
    /\ PatchFormPanel
    /\ UNCHANGED subscriptionVars
    /\ PatchNotificationForm(nform, notifyRequests)
    /\ posted' = <<>>

\* A message whose payload carries another id than the stream's job.
MessageOtherId ==
  \E h \in DOMAIN sources, data \in Messages :
    /\ sources[h].readyState = "open"
    /\ JSONparse(data).id # sources[h].id
    /\ onMessage(h, [data |-> data])
    /\ last' = Op("message", sources[h].id, h, data)
    /\ UNCHANGED pageVars
    /\ UNCHANGED <<formVars, first>>
    /\ PatchPanels
    /\ PatchFormPanel
    /\ UNCHANGED subscriptionVars
    /\ PatchNotificationForm(nform, notifyRequests)
    /\ posted' = <<>>

\* The user dismisses the error panel of a failed job (JobDisplay.triggerClose).
DismissJob ==
  \E i \in DOMAIN jobIds :
    /\ jobIds[i] \in DOMAIN jobs
    /\ jobs[jobIds[i]].status = "failed"
    /\ onJobDismissed(jobs[jobIds[i]].id)
    /\ last' = Op("dismiss", jobs[jobIds[i]].id, i, NoText)
    /\ UNCHANGED pageVars
    /\ UNCHANGED <<formVars, first>>
    /\ PatchPanels
    /\ PatchFormPanel
    /\ UNCHANGED subscriptionVars
    /\ PatchNotificationForm(nform, notifyRequests)
    /\ posted' = <<>>

\* The user presses the Traceback button of a failed job's panel.
ToggleJobTraceback ==
  \E i \in DOMAIN jobIds :
    /\ failedAt(i)
    /\ panels' = [panels EXCEPT ![i] = toggleTraceback(panels[i])]
    /\ last' = Op("toggleJobTraceback", jobIds[i], i, NoText)
    /\ UNCHANGED pageVars
    /\ posted' = <<>>
    /\ UNCHANGED <<appVars, formVars, first, formPanel, nform, notifyRequests,
                   subscriptionVars>>

Message == MessageOf(Messages)

Next == NewJob \/ Message \/ DismissJob \/ ToggleJobTraceback

\* The app with a server that sends what the client expects.
Spec == Init /\ [][Next]_vars

\* The app with a server that hands out fresh ids and may send any payload
\* id on a stream.
NextChannels == NewJob \/ Message \/ MessageOtherId

SpecChannels == Init /\ [][NextChannels]_vars

NextAny ==
  NewJob \/ NewJobSameId \/ Message \/ MessageOtherId \/ DismissJob \/ ToggleJobTraceback

\* The app with a server that may reuse an id and may send any payload id.
SpecAny == Init /\ [][NextAny]_vars

\* The user edits the URL input (v-model).
InputUrl ==
  \E u \in Urls :
    /\ metsUrl' = u
    /\ last' = Op("input", "", 0, NoText)
    /\ UNCHANGED pageVars
    /\ UNCHANGED first
    /\ UNCHANGED <<errorMessage, traceback, invalid, isLoading, requests>>
    /\ UNCHANGED appVars
    /\ PatchPanels
    /\ PatchFormPanel
    /\ UNCHANGED subscriptionVars
    /\ PatchNotificationForm(nform, notifyRequests)
    /\ posted' = <<>>

\* The user clicks into the URL input.
ClickInput ==
  /\ removeError
  /\ last' = Op("clickInput", "", 0, NoText)
  /\ UNCHANGED pageVars
  /\ UNCHANGED first
  /\ UNCHANGED appVars
  /\ PatchPanels
  /\ PatchFormPanel
  /\ UNCHANGED subscriptionVars
  /\ PatchNotificationForm(nform, notifyRequests)
  /\ posted' = <<>>

\* The user activates the submit button, which is disabled by isDisabled.
ClickSubmit ==
  /\ ~isDisabled
  /\ Len(requests) < MaxInFlight
  /\ submitUrl
  /\ last' = Op("submit", "", 0, NoText)
  /\ UNCHANGED pageVars
  /\ UNCHANGED first
  /\ UNCHANGED appVars
  /\ PatchPanels
  /\ PatchFormPanel
  /\ UNCHANGED subscriptionVars
  /\ PatchNotificationForm(nform, notifyRequests)
  /\ posted' = <<>>

\* A creation request succeeds with one of the queued jobs js.
ImportSucceedsOf(js) ==
  \E k \in DOMAIN requests, job \in js :
    /\ Len(sources) < MaxCreated
    /\ job.id \notin UsedIds
    /\ submitUrlThen(k, [data |-> job])
    /\ last' = Op("created", job.id, Len(sources) + 1, stringify(job))
    /\ UNCHANGED pageVars
    /\ first' = Seen(job)
    /\ PatchPanels
    /\ PatchFormPanel
    /\ UNCHANGED subscriptionVars
    /\ PatchNotificationForm(nform, notifyRequests)

ImportSucceeds == ImportSucceedsOf(QueuedJobs)

\* A creation request fails, with or without a response.
ImportFails ==
  \E k \in DOMAIN requests, err \in Errors :
    /\ submitUrlCatch(k, err)
    /\ last' = Op("importFailed", "", k, bodyText(err))
    /\ UNCHANGED pageVars
    /\ UNCHANGED first
    /\ UNCHANGED appVars
    /\ PatchPanels
    /\ PatchFormPanel
    /\ UNCHANGED subscriptionVars
    /\ PatchNotificationForm(nform, notifyRequests)
    /\ posted' = <<>>

\* The user dismisses the ErrorDisplay of the form (v-if="!errorMessage && traceback").
DismissError ==
  /\ errorDisplayShown
  /\ onDismissError
  /\ last' = Op("dismissError", "", 0, NoText)
  /\ UNCHANGED pageVars
  /\ UNCHANGED first
  /\ UNCHANGED appVars
  /\ PatchPanels
  /\ PatchFormPanel
  /\ UNCHANGED subscriptionVars
  /\ PatchNotificationForm(nform, notifyRequests)
  /\ posted' = <<>>

\* The user presses the Traceback button of the form's panel.
ToggleTraceback ==
  /\ errorDisplayShown
  /\ formPanel' = toggleTraceback(formPanel)
  /\ last' = Op("toggleTraceback", "", 0, NoText)
  /\ UNCHANGED pageVars
  /\ posted' = <<>>
  /\ UNCHANGED <<appVars, formVars, first, panels, nform, notifyRequests, subscriptionVars>>

NextForm ==
  \/ InputUrl \/ ClickInput \/ ClickSubmit \/ ImportSucceeds \/ ImportFails
  \/ DismissError \/ ToggleTraceback

SpecForm == Init /\ [][NextForm]_vars

\* A creation request succeeds with a job at the head of the queue.
ImportHead == ImportSucceedsOf({job \in QueuedJobs : job.position = 0})

\* The server reports that a job has failed.
JobFails == MessageOf({stringify(s) : s \in FailedJobs})

\* The user ticks "Notify me via email" (v-model on viewForm).
CheckNotify ==
  /\ nform.rendered /\ ~nform.viewForm
  /\ posted' = <<>>
  /\ last' = Op("check", "", 0, NoText)
  /\ UNCHANGED pageVars
  /\ UNCHANGED <<appVars, formVars, first, panels, formPanel, subscriptionVars>>
  /\ PatchNotificationForm([nform EXCEPT !.viewForm = TRUE], notifyRequests)

\* The user edits the email input (v-model on recipient).
InputRecipient ==
  \E r \in Recipients :
    /\ inputShown(nform)
    /\ posted' = <<>>
    /\ last' = Op("inputRecipient", "", 0, NoText)
    /\ UNCHANGED pageVars
    /\ UNCHANGED <<appVars, formVars, first, panels, formPanel, subscriptionVars>>
    /\ PatchNotificationForm([nform EXCEPT !.recipient = r], notifyRequests)

\* The user clicks into the email input.
ClickRecipient ==
  /\ inputShown(nform)
  /\ posted' = <<>>
  /\ last' = Op("clickRecipient", "", 0, NoText)
  /\ UNCHANGED pageVars
  /\ UNCHANGED <<appVars, formVars, first, panels, formPanel, subscriptionVars>>
  /\ PatchNotificationForm(NotificationForm_removeError(nform), notifyRequests)

\* The user activates the Submit button of the NotificationForm, which is
\* disabled by isDisabled; the button stands in no <form>, so that no
\* constraint validation follows.
ClickSubscribe ==
  /\ inputShown(nform)
  /\ ~NotificationForm_isDisabled(nform)
  /\ Len(notifyRequests) < MaxNotifyInFlight
  /\ last' = Op("subscribe", "", 0, NoText)
  /\ UNCHANGED pageVars
  /\ UNCHANGED <<formVars, first, panels, formPanel, subscriptionVars>>
  /\ registerForNotifications(jobIds)

\* A subscription request succeeds.
SubscribeSucceeds ==
  \E k \in DOMAIN notifyRequests :
    /\ posted' = <<>>
    /\ last' = Op("subscribed", "", k, NoText)
    /\ UNCHANGED pageVars
    /\ UNCHANGED <<formVars, first, panels, formPanel>>
    /\ registerThen(k)

\* A subscription request fails, with or without a response.
SubscribeFails ==
  \E k \in DOMAIN notifyRequests, err \in Errors :
    /\ posted' = <<>>
    /\ last' = Op("subscribeFailed", "", k, bodyText(err))
    /\ UNCHANGED pageVars
    /\ UNCHANGED <<formVars, first, panels, formPanel>>
    /\ registerCatch(k, err)

\* The user closes the "You will be notified" box (NotificationForm.dismiss).
DismissNotification ==
  /\ subscribedShown(nform)
  /\ onDismissNotification
  /\ posted' = <<>>
  /\ last' = Op("dismissNotification", "", 0, NoText)
  /\ UNCHANGED pageVars
  /\ UNCHANGED <<appVars, formVars, first, panels, formPanel,
                 subscribedToNotifications, subscriptionAddress>>
  /\ PatchNotificationForm(nform, notifyRequests)

NextNotify ==
  \/ ClickSubmit \/ ImportHead \/ JobFails \/ DismissJob
  \/ CheckNotify \/ InputRecipient \/ ClickRecipient \/ ClickSubscribe
  \/ SubscribeSucceeds \/ SubscribeFails \/ DismissNotification

\* The import page with its notification workflow.  The URL input is left
\* as it is: no callback of the workflow reads the URL.
SpecNotify == Init /\ [][NextNotify]_vars

\* A page holds one identifier, from which a component derives its view URL.
InitView ==
  /\ InitImport
  /\ InitRecent
  /\ view \in {[id |-> i, by |-> "none", url |-> NoUrl] : i \in Identifiers}
  /\ card = NoCard

\* A JobDisplay renders the link of a finished job whose result is view.id.
JobDisplayViews ==
  /\ view.by = "none"
  /\ view' = [view EXCEPT !.by = "JobDisplay", !.url = JobDisplay_viewerUrl(view.id)]
  /\ UNCHANGED <<importVars, recentVars, card>>

\* A ManifestView of static/js/common.js renders the manifest whose @id is view.id.
ManifestViewViews ==
  /\ view.by = "none"
  /\ view' = [view EXCEPT !.by = "common.js", !.url = ManifestView_viewerUrl(view.id)]
  /\ UNCHANGED <<importVars, recentVars, card>>

\* A ManifestView of part_000 renders the manifest whose @id is view.id.
ManifestViewSliceViews ==
  /\ view.by = "none"
  /\ view' = [view EXCEPT !.by = "part_000", !.url = ManifestView_viewerUrl_slice(view.id)]
  /\ UNCHANGED <<importVars, recentVars, card>>

NextView == JobDisplayViews \/ ManifestViewViews \/ ManifestViewSliceViews

SpecView == InitView /\ [][NextView]_vars

\* The server's answer to GET /api/recent?page=p: the manifests of the page
\* (a page holds one manifest, named by the page number) and the number of
\* the next page, null after the last one.
recentResponse(p) ==
  [data |-> [manifests |-> <<p.n>>, next_page |-> IF p.n < MaxPage THEN Num(p.n + 1) ELSE Null]]

\* app.loadNext of static/js/recent.js up to the get
loadNext ==
  /\ gets' = Append(gets, [page |-> nextPage])
  /\ recentIsLoading' = TRUE
  /\ UNCHANGED <<nextPage, items>>

\* app.loadNext, the then-callback of request k
loadNextThen(k, response) ==
  /\ nextPage' = response.data.next_page
  /\ recentIsLoading' = FALSE
  /\ items' = items \o response.data.manifests
  /\ gets' = Without(gets, k)

\* The user activates the More button, which is rendered while nextPage is
\* truthy.
ClickMore ==
  /\ TruthyNumber(nextPage)
  /\ Len(gets) < MaxInFlight
  /\ Len(items) + Len(gets) < MaxItems
  /\ loadNext
  /\ UNCHANGED <<importVars, view, card>>

\* A page request is answered.
RecentLoaded ==
  \E k \in DOMAIN gets :
    /\ loadNextThen(k, recentResponse(gets[k].page))
    /\ UNCHANGED <<importVars, view, card>>

NextRecent == ClickMore \/ RecentLoaded

\* The recent-manifests page.
SpecRecent == Init /\ [][NextRecent]_vars

\* A page holds one manifest, whose label a ManifestView shows.
InitLabel ==
  /\ InitImport
  /\ InitRecent
  /\ view = NoView
  /\ card \in {[label |-> l, by |-> "none", shown |-> Text(<<>>)] : l \in ManifestLabels}

\* A ManifestView of static/js/common.js renders the label.
ManifestViewLabels ==
  /\ card.by = "none"
  /\ card' = [card EXCEPT !.by = "common.js", !.shown = truncatedLabel(card.label)]
  /\ UNCHANGED <<importVars, recentVars, view>>

\* A ManifestView of static/js/recent.js renders the label.
RecentViewLabels ==
  /\ card.by = "none"
  /\ card' = [card EXCEPT !.by = "recent.js", !.shown = truncatedLabel_recent(card.label)]
  /\ UNCHANGED <<importVars, recentVars, view>>

\* A ManifestView of part_000 renders the label.
Part000ViewLabels ==
  /\ card.by = "none"
  /\ card' = [card EXCEPT !.by = "part_000", !.shown = truncatedLabel_part000(card.label)]
  /\ UNCHANGED <<importVars, recentVars, view>>

NextLabel == ManifestViewLabels \/ RecentViewLabels \/ Part000ViewLabels

SpecLabel == InitLabel /\ [][NextLabel]_vars

(* ---------------------------- properties ------------------------------ *)
Range(seq) == {seq[i] : i \in DOMAIN seq}

\* C1: after a message on a job's channel is handled, the job stored under
\* that id is the delivered snapshot in full: the same fields, the same
\* values, and no field of what was stored before.
C1_StoredIsLastDelivered ==
  last.type = "message" =>
    /\ last.id \in DOMAIN jobs
    /\ \E s \in Snapshots : stringify(s) = last.data /\ jobs[last.id] = s

\* A finished snapshot has replaced a stored job; no position field is left.
C1_Witness ==
  /\ last.type = "message"
  /\ last.id \in DOMAIN jobs
  /\ jobs[last.id].status = "finished"
  /\ "position" \notin DOMAIN jobs[last.id]

\* C2: once a finished or failed snapshot has been applied, the channel it
\* came on is closed.
C2_ClosedOnTerminal ==
  (last.type = "message" /\ JSONparse(last.data).status \in Terminal) =>
    sources[last.h].readyState = "closed"

\* C3: the ids in jobIds and the keys of jobs are the same set.
C3_SameIds == Range(jobIds) = DOMAIN jobs

\* C4: a message for a job id that has been dismissed (the id is in neither
\* jobIds nor jobs, and its channel exists) changes neither jobIds nor jobs.
C4_StaleMessageNoOp ==
  [][(last'.type = "message" /\ ~InStore(last'.id) /\ last'.id \notin DOMAIN jobs)
       => (jobIds' = jobIds /\ jobs' = jobs)]_vars

\* C5: dismissing an id that is in jobIds removes that id (its first
\* occurrence) and nothing else from jobIds, keeps the order of all other
\* ids, removes the id's entry from jobs and leaves every other entry as it
\* was.
C5_DismissRemovesOnlyThat ==
  [][(last'.type = "dismiss" /\ InStore(last'.id)) =>
       LET id == last'.id
           k == CHOOSE i \in DOMAIN jobIds :
                  jobIds[i] = id /\ \A j \in 1..(i - 1) : jobIds[j] # id
       IN /\ Len(jobIds') = Len(jobIds) - 1
          /\ Cardinality({i \in DOMAIN jobIds : jobIds[i] = id}) = 1 => id \notin Range(jobIds')
          /\ \A i \in DOMAIN jobIds' : jobIds'[i] = IF i < k THEN jobIds[i] ELSE jobIds[i + 1]
          /\ DOMAIN jobs' = DOMAIN jobs \ {id}
          /\ \A o \in DOMAIN jobs' : jobs'[o] = jobs[o]]_vars

\* A job of the store was dismissed and another job is still listed.
C5_Witness ==
  /\ last.type = "dismiss"
  /\ last.inStore
  /\ ~InStore(last.id)
  /\ jobIds # <<>>
  /\ Range(jobIds) \subseteq DOMAIN jobs

\* C6: after a job of the store is dismissed, no channel of that id is open.
C6_DismissClosesChannel ==
  (last.type = "dismiss" /\ last.inStore) =>
    \A h \in DOMAIN sources : sources[h].id = last.id => sources[h].readyState = "closed"

\* C7: at most one channel is open per job id.
C7_OneChannelPerJob ==
  \A g, h \in DOMAIN sources :
    (sources[g].id = sources[h].id /\ sources[g].readyState = "open"
       /\ sources[h].readyState = "open") => g = h

\* C8: while a creation request is in flight the submit control is disabled,
\* and at most one creation request is in flight.
C8_NoDuplicateSubmission ==
  /\ requests # <<>> => isDisabled
  /\ Len(requests) <= 1

Leq(r, q) == r.num * q.den <= q.num * r.den

\* C9: for a queued job with denominator Q the ratio does not grow with the
\* position, is 1 at position 0 and 0 at position Q.
C9_QueuedRatio ==
  \A i \in Rendered :
    LET Q == displays[i].queueLength
        r(p) == completionRatio([status |-> "queued", position |-> p], Q)
    IN /\ \A p \in 0..(MaxPos + 1) : r(p).den > 0
       /\ \A p, q \in 0..(MaxPos + 1) : p <= q => Leq(r(q), r(p))
       /\ r(0).num = r(0).den
       /\ r(Q).num = 0

\* C10: the ratio of every rendered job is null or a number in [0, 1].
C10_RatioInUnitInterval ==
  \A i \in Rendered :
    LET r == ratioAt(i)
    IN r.kind = "null" \/ (r.den > 0 /\ 0 <= r.num /\ r.num <= r.den)

\* C11: the queueLength a job is rendered with is position + 1 of that
\* job's own first snapshot.
C11_OwnQueueLength ==
  \A i \in Rendered : displays[i].queueLength = first[jobIds[i]] + 1

\* C12: the ratio of a started job is current_image / total_images, and null
\* when total_images is 0.
C12_StartedRatio ==
  \A i \in Rendered :
    LET job == jobs[jobIds[i]]
        r == ratioAt(i)
    IN job.status = "started" =>
         IF job.total_images = 0 THEN r.kind = "null"
         ELSE /\ r.kind = "number"
              /\ r.den # 0
              /\ r.num * job.total_images = job.current_image * r.den

\* C13: no creation request is in flight for an empty or malformed URL.
C13_InvalidUrlNotSent ==
  \A k \in DOMAIN requests : requests[k].url # "" /\ requests[k].url # "not a url"

\* The message of the failed response that was handled last, or undefined.
lastMessage(l) == IF l.type = "importFailed" THEN Prop(JSONparse(l.data), "message") ELSE undefined

lastTraceback(l) ==
  IF l.type = "importFailed" THEN Prop(JSONparse(l.data), "traceback") ELSE undefined

lastTransportFailure(l) == l.type = "importFailed" /\ l.data = NoText

\* C16: a submit action issues exactly one creation request and nothing
\* else issues one; a transport failure changes neither errorMessage,
\* traceback, jobIds nor jobs, and the failed request is not sent again.
C16_NoRetry ==
  [][/\ last'.type = "submit" => Len(requests') = Len(requests) + 1
     /\ Len(requests') > Len(requests) => last'.type = "submit"
     /\ lastTransportFailure(last') =>
          /\ errorMessage' = errorMessage
          /\ traceback' = traceback
          /\ jobIds' = jobIds
          /\ jobs' = jobs
          /\ Len(requests') = Len(requests) - 1]_vars

\* A transport failure was handled and no request is in flight.
C16_Witness == lastTransportFailure(last) /\ requests = <<>>

\* The i-th job panel shows its traceback.
shownAt(ps, i) == i \in DOMAIN ps /\ ps[i]

C19_SubscribedIsTerminal ==
  subscribedToNotifications => ~(nform.rendered /\ ~nform.wasSubmitted)

\* C20: no subscription request carries a recipient that fails the
\* email-shape check.
C20_InvalidRecipientNotSent ==
  \A i \in DOMAIN posted :
    posted[i].url = "/api/tasks/notify" => validEmail(posted[i].recipient)

\* C21: adding a job whose id is already in the store changes neither jobIds
\* nor jobs, and jobIds never holds an id twice.
C21_AddPresentIdFails ==
  [][/\ (last'.type = "created" /\ InStore(last'.id)) => (jobIds' = jobIds /\ jobs' = jobs)
     /\ \A i, j \in DOMAIN jobIds' : jobIds'[i] = jobIds'[j] => i = j]_vars

\* C22: dismissing an id that is not in jobIds changes neither jobIds nor jobs.
C22_DismissAbsentNoOp ==
  [][(last'.type = "dismiss" /\ ~InStore(last'.id)) => (jobIds' = jobIds /\ jobs' = jobs)]_vars

\* seq without its k-th element
RemoveAt(seq, k) == [i \in 1..(Len(seq) - 1) |-> IF i < k THEN seq[i] ELSE seq[i + 1]]

\* C23: a message leaves jobIds as it is; jobIds changes only by a creation,
\* which appends the new id at the end, and by a dismissal, which takes one
\* element out and keeps the others in their order.
C23_OrderOnlyByAddRemove ==
  [][/\ last'.type = "message" => jobIds' = jobIds
     /\ jobIds' # jobIds =>
          \/ last'.type = "created" /\ jobIds' = Append(jobIds, last'.id)
          \/ last'.type = "dismiss" /\ \E k \in DOMAIN jobIds : jobIds' = RemoveAt(jobIds, k)]_vars

\* A message for the second of two listed jobs was handled.
C23_Witness ==
  /\ last.type = "message"
  /\ Len(jobIds) = 2
  /\ jobIds[2] = last.id

\* The open event streams.
OpenChannels(srcs) == {h \in DOMAIN srcs : srcs[h].readyState = "open"}

\* C24: issuing a subscription request and handling its success or its
\* failure leave jobIds, jobs and the set of open channels as they were.
C24_NotificationLeavesStore ==
  [][last'.type \in {"subscribe", "subscribed", "subscribeFailed"} =>
       /\ jobIds' = jobIds
       /\ jobs' = jobs
       /\ streams' = streams
       /\ OpenChannels(sources') = OpenChannels(sources)]_vars

\* A subscription for two listed jobs has succeeded.
C24_Witness ==
  /\ last.type = "subscribed"
  /\ subscribedToNotifications
  /\ Len(jobIds) = 2
  /\ OpenChannels(sources) # {}

\* C25: for an identifier of at least two segments every derivation gives
\* "/view/" followed by the second-to-last segment.
C25_ViewUrlSecondToLast ==
  LET parts == split(view.id, "/")
  IN (view.by # "none" /\ Len(parts) >= 2) => view.url = viewPrefix \o parts[Len(parts) - 1]

\* C26: when a creation request succeeds, the id of the returned job becomes
\* the last element of jobIds, the job stored under it is the response body,
\* one event stream is opened, for that id, and the URL input is emptied.
C26_SuccessRegistersJob ==
  [][last'.type = "created" =>
       /\ jobIds' = Append(jobIds, last'.id)
       /\ \E job \in QueuedJobs : stringify(job) = last'.data /\ jobs'[last'.id] = job
       /\ \A o \in DOMAIN jobs \ {last'.id} : jobs'[o] = jobs[o]
       /\ sources' = Append(sources, [id |-> last'.id, readyState |-> "open"])
       /\ streams'[last'.id] = Len(sources')
       /\ metsUrl' = ""
       /\ Len(requests') = Len(requests) - 1]_vars

\* A second creation has succeeded and the input is empty.
C26_Witness ==
  /\ last.type = "created"
  /\ Len(jobIds) = 2
  /\ jobIds[2] = last.id
  /\ metsUrl = ""

\* C27: a message on a job's channel stores its snapshot under the id the
\* channel was opened for, whatever id the payload carries, and leaves the
\* stored snapshot of every other job as it was.
C27_MessageTouchesOwnEntryOnly ==
  [][last'.type = "message" =>
       LET id == sources[last'.h].id
       IN /\ DOMAIN jobs' = DOMAIN jobs \cup {id}
          /\ jobs'[id] = JSONparse(last'.data)
          /\ \A o \in DOMAIN jobs \ {id} : jobs'[o] = jobs[o]]_vars

\* A message that carries the id of the other stored job was handled.
C27_Witness ==
  /\ last.type = "message"
  /\ JSONparse(last.data).id # last.id
  /\ JSONparse(last.data).id \in DOMAIN jobs
  /\ jobs[JSONparse(last.data).id].id # jobs[last.id].id

\* C28: isLoading is true exactly while a creation request is in flight.
C28_LoadingWhileInFlight == isLoading <=> requests # <<>>

\* C29: once a creation has succeeded, neither the inline message nor the
\* traceback panel of the form is shown.
C29_SuccessClearsErrors ==
  last.type = "created" => (~inlineShown /\ ~errorDisplayShown)

\* C30: items holds every page at most once, and the pages in their order.
C30_PagesOnceInOrder ==
  \A i, j \in DOMAIN items : i < j => items[i] < items[j]

RECURSIVE joinSpace(_)
\* The words put together again, one space between two.
joinSpace(arr) ==
  IF arr = <<>> THEN <<>>
  ELSE IF Len(arr) = 1 THEN arr[1]
  ELSE arr[1] \o <<" ">> \o joinSpace(Tail(arr))

\* C31: truncatedLabel gives a text for every label; a label of fewer than
\* 100 characters unchanged; for a longer one a text of at most 100
\* characters that is the first whole words of the label, as the label has
\* them, followed by one ellipsis.
C31_TruncatedLabel ==
  card.by # "none" =>
    /\ card.shown.kind = "string"
    /\ Len(card.label) < Limit => card.shown.text = card.label
    /\ Len(card.label) >= Limit =>
         /\ Len(card.shown.text) <= Limit
         /\ \E k \in 0..Len(split(card.label, " ")) :
              card.shown.text = joinSpace(SubSeq(split(card.label, " "), 1, k)) \o ellipsis

====
